---- MODULE Spec2Model ----
(***************************************************************************)
(* Model of the voice calculator (class VoiceCalculator): the numeral      *)
(* parser, the speech-text pipeline, the entry ledger and the listening    *)
(* session with its timers.                                                *)
(*                                                                         *)
(* Text.  A JavaScript string is modelled as a sequence of characters,     *)
(* and every character is written as an ASCII name:                        *)
(*   "0".."9"  the Arabic digits      "."  full stop      ","  comma      *)
(*   " "       white space            "DUN" the list separator U+3001     *)
(*   "ling" U+96F6 (0)  "yi" U+4E00 (1)   "er" U+4E8C (2)                  *)
(*   "liang" U+5169 (2) "san" U+4E09 (3)  "si" U+56DB (4)                  *)
(*   "wu" U+4E94 (5)    "liu" U+516D (6)  "qi" U+4E03 (7)                  *)
(*   "ba" U+516B (8)    "jiu" U+4E5D (9)  "shi" U+5341 (10)                *)
(*   "bai" U+767E (100) "qian" U+5343 (1000) "wan" U+842C (10000)          *)
(*   "ge" U+500B, "ge_s" U+4E2A        the unit words of a multiplier      *)
(*   "shan" U+522A "chu" U+9664        the delete command                  *)
(*   "zong" U+7E3D "gong" U+5171, "duo" U+591A "shao" U+5C11,              *)
(*   "jie" U+7D50 "suan" U+7B97, "mai" U+8CB7 "dan" U+55AE   summary words *)
(*   "d" "e" "l" "t" "D" "E" "L" "T"   Latin letters                        *)
(*   "yuan" U+5143                     any other character                 *)
(*                                                                         *)
(* Numbers.  A JavaScript number is modelled as a decimal fixed-point      *)
(* record [i |-> integer part, f |-> fraction in units of 1/FracScale];    *)
(* NaN is the record with i = -1.  Binary rounding of fractions is not     *)
(* modelled; no number of the program is negative.                         *)
(***************************************************************************)
EXTENDS Integers, Sequences, FiniteSets, TLC

VARIABLES
    entries,            \* this.entries: the ledger, a sequence of [id, value]
    dom,                \* what the page shows (total, modal, transcript, status)
    isListening,        \* this.isListening
    forceFinalizeTimer, \* pending timeouts armed as this.forceFinalizeTimer
    restartTimer,       \* pending timeouts armed as this.restartTimer
    inactivityTimer,    \* pending timeouts armed as this.inactivityTimer
    startTimers,        \* pending settle-delay timeouts of the mic button
    autoStopMinutes,    \* this.autoStopMinutes
    recognition,        \* state of the SpeechRecognition object
    utterance,          \* the backend: an utterance in progress, results sent
    committed,          \* history: calls of processSpeechInput per utterance
    lastAlert,          \* the last alert() dialog raised
    log,                \* history: stop requests, start() calls, interim text
    input,              \* pipeline specifications: the token or text given
    arg,                \* ... what the input was made from
    before,             \* ... the ledger and page before the call
    output,             \* ... the value parseNumber returned
    pc                  \* ... "ready", then "parsed" or "committed", "deleted"

vars == <<entries, dom, isListening, forceFinalizeTimer, restartTimer,
          inactivityTimer, startTimers, autoStopMinutes, recognition,
          utterance, committed, lastAlert, log, input, arg, before, output,
          pc>>

-----------------------------------------------------------------------------
(* Numbers *)

FracDigits == 3
FracScale == 10 ^ FracDigits

NaN == [i |-> 0 - 1, f |-> 0]
isNaN(x) == x.i < 0
Num(n) == [i |-> n, f |-> 0]

\* a + b
NumAdd(a, b) ==
    IF isNaN(a) \/ isNaN(b) THEN NaN
    ELSE [i |-> a.i + b.i + ((a.f + b.f) \div FracScale),
          f |-> (a.f + b.f) % FracScale]

\* a * m for an integer m
NumTimes(a, m) ==
    IF isNaN(a) THEN NaN
    ELSE [i |-> a.i * m + ((a.f * m) \div FracScale),
          f |-> (a.f * m) % FracScale]

NumIsZero(a) == a.i = 0 /\ a.f = 0
NumIsPositive(a) == a.i > 0 \/ (a.i = 0 /\ a.f > 0)
\* a <= n for an integer n
NumAtMost(a, n) == ~isNaN(a) /\ (a.i < n \/ (a.i = n /\ a.f = 0))

-----------------------------------------------------------------------------
(* Characters *)

Digits == {"0", "1", "2", "3", "4", "5", "6", "7", "8", "9"}

DigitValue(c) ==
    CASE c = "0" -> 0 [] c = "1" -> 1 [] c = "2" -> 2 [] c = "3" -> 3
      [] c = "4" -> 4 [] c = "5" -> 5 [] c = "6" -> 6 [] c = "7" -> 7
      [] c = "8" -> 8 [] c = "9" -> 9

\* /[零一二兩三四五六七八九十百千萬]/
ChineseNumerals ==
    {"ling", "yi", "er", "liang", "san", "si", "wu", "liu", "qi", "ba",
     "jiu", "shi", "bai", "qian", "wan"}

\* const map = {...}
map(c) ==
    CASE c = "ling" -> 0 [] c = "yi" -> 1 [] c = "er" -> 2 [] c = "liang" -> 2
      [] c = "san" -> 3 [] c = "si" -> 4 [] c = "wu" -> 5 [] c = "liu" -> 6
      [] c = "qi" -> 7 [] c = "ba" -> 8 [] c = "jiu" -> 9 [] c = "shi" -> 10
      [] c = "bai" -> 100 [] c = "qian" -> 1000 [] c = "wan" -> 10000

WhiteSpace == {" "}

-----------------------------------------------------------------------------
(* parseFloat *)

\* length of the longest run of digits of str that starts at position i
RECURSIVE DigitRun(_, _)
DigitRun(str, i) ==
    IF i <= Len(str) /\ str[i] \in Digits THEN 1 + DigitRun(str, i + 1) ELSE 0

\* value of the digits str[i .. i+n-1] read as a decimal integer
RECURSIVE DigitsValue(_, _, _)
DigitsValue(str, i, n) ==
    IF n = 0 THEN 0
    ELSE DigitsValue(str, i, n - 1) * 10 + DigitValue(str[i + n - 1])

\* value of the digits str[i .. i+n-1] read after a decimal point, in
\* units of 1/FracScale (digits beyond FracDigits are dropped)
RECURSIVE FractionValue(_, _, _)
FractionValue(str, i, n) ==
    IF n = 0 THEN 0
    ELSE IF n > FracDigits THEN FractionValue(str, i, FracDigits)
    ELSE FractionValue(str, i, n - 1)
         + DigitValue(str[i + n - 1]) * (10 ^ (FracDigits - n))

\* parseFloat(str): the longest prefix  digits [. digits]  or  . digits;
\* NaN when that prefix has no digit.  (No sign, exponent or leading
\* white space occurs in the strings the program passes.)
parseFloat(str) ==
    LET n == DigitRun(str, 1)
        dot == n + 1 <= Len(str) /\ str[n + 1] = "."
        m == IF dot THEN DigitRun(str, n + 2) ELSE 0
    IN  IF n = 0 /\ m = 0 THEN NaN
        ELSE [i |-> DigitsValue(str, 1, n), f |-> FractionValue(str, n + 2, m)]

-----------------------------------------------------------------------------
(* parseNumber *)

\* !/[...]/.test(str)
NoChineseNumeral(str) == \A k \in 1..Len(str) : str[k] \notin ChineseNumerals

\* a multiplier that only adds bucket * num, also for wan
CombineWithoutRescale(st, char, num) ==
    [st EXCEPT !.val = NumAdd(@, NumTimes(st.bucket, num)), !.bucket = Num(0)]

\* the branch  num >= 10  of the loop: a multiplier character
Combine(st, char, num) ==
    LET bucket == IF NumIsZero(st.bucket) /\ char = "shi"
                  THEN Num(1) ELSE st.bucket
    IN  IF num = 10000
        THEN [st EXCEPT !.val = NumTimes(NumAdd(@, bucket), 10000),
                        !.bucket = Num(0)]
        ELSE [st EXCEPT !.val = NumAdd(@, NumTimes(bucket, num)),
                        !.bucket = Num(0)]

\* one iteration of the for loop; st = [val, bucket, currentDigitStr]
ScanStep(st, char) ==
    IF char \in Digits \cup {"."}
    THEN [st EXCEPT !.currentDigitStr = Append(@, char)]
    ELSE
        LET flushed ==
                IF st.currentDigitStr /= <<>>
                THEN [st EXCEPT !.bucket = parseFloat(st.currentDigitStr),
                                !.currentDigitStr = <<>>]
                ELSE st
        IN  IF char \notin ChineseNumerals THEN flushed
            ELSE LET num == map(char) IN
                 IF num >= 10 THEN Combine(flushed, char, num)
                 ELSE [flushed EXCEPT !.bucket = Num(num)]

RECURSIVE Scan(_, _, _)
Scan(str, i, st) ==
    IF i > Len(str) THEN st ELSE Scan(str, i + 1, ScanStep(st, str[i]))

\* the bucket/carry scan of parseNumber, from "let val = 0" to its return
ScanValue(str) ==
    LET st == Scan(str, 1, [val |-> Num(0), bucket |-> Num(0),
                            currentDigitStr |-> <<>>])
        bucket == IF st.currentDigitStr /= <<>>
                  THEN parseFloat(st.currentDigitStr) ELSE st.bucket
        val == NumAdd(st.val, bucket)
    IN  IF NumIsZero(val) THEN NaN ELSE val

\* the condition of the first return of parseNumber
ReturnsFloatCheck(str) == ~isNaN(parseFloat(str)) /\ NoChineseNumeral(str)

\* a parseNumber without its first return
parseNumberScanOnly(str) == ScanValue(str)

parseNumber(str) ==
    IF ReturnsFloatCheck(str) THEN parseFloat(str) ELSE ScanValue(str)

-----------------------------------------------------------------------------
(* String helpers of processSpeechInput *)

\* the longest run of characters of class cls that starts at position i
RECURSIVE Run(_, _, _)
Run(str, i, cls) ==
    IF i <= Len(str) /\ str[i] \in cls THEN 1 + Run(str, i + 1, cls) ELSE 0

\* the number of white-space characters that end str
RECURSIVE TrailingSpace(_)
TrailingSpace(str) ==
    IF str /= <<>> /\ str[Len(str)] \in WhiteSpace
    THEN 1 + TrailingSpace(SubSeq(str, 1, Len(str) - 1)) ELSE 0

\* text.trim()
trim(text) ==
    LET a == Run(text, 1, WhiteSpace)
        b == TrailingSpace(text)
    IN  IF a = Len(text) THEN <<>> ELSE SubSeq(text, a + 1, Len(text) - b)

\* cleanText.replace(/,/g, '')
RemoveCommas(text) == SelectSeq(text, LAMBDA c : c /= ",")

\* String.prototype.toLowerCase, on the letters of the alphabet
LowerChar(c) ==
    CASE c = "D" -> "d" [] c = "E" -> "e" [] c = "L" -> "l" [] c = "T" -> "t"
      [] OTHER -> c

toLowerCase(text) == [k \in 1..Len(text) |-> LowerChar(text[k])]

\* text.includes(word)
includes(text, word) ==
    \E k \in 0..(Len(text) - Len(word)) :
        SubSeq(text, k + 1, k + Len(word)) = word

DeleteWords == {<<"shan", "chu">>}
DeleteAlias == <<"d", "e", "l", "e", "t", "e">>
SummaryWords ==
    {<<"zong", "gong">>, <<"duo", "shao">>, <<"jie", "suan">>, <<"mai", "dan">>}

\* a delete test that compares the alias without toLowerCase()
IsDeleteCommandCaseSensitive(cleanText) ==
    \/ \E w \in DeleteWords : includes(cleanText, w)
    \/ includes(cleanText, DeleteAlias)

\* the condition of the first if of processSpeechInput
IsDeleteCommand(cleanText) ==
    \/ \E w \in DeleteWords : includes(cleanText, w)
    \/ includes(toLowerCase(cleanText), DeleteAlias)

\* a summary test that misses the last keyword
IsSummaryCommandShort(cleanText) ==
    \E w \in SummaryWords \ {<<"mai", "dan">>} : includes(cleanText, w)

\* the condition of its second if
IsSummaryCommand(cleanText) == \E w \in SummaryWords : includes(cleanText, w)

\* [0-9零一二兩三四五六七八九十]
QtyClass == Digits \cup (ChineseNumerals \ {"bai", "qian", "wan"})
\* [0-9零一二兩三四五六七八九十百千萬]
AmountClass == Digits \cup ChineseNumerals
\* [個个]
UnitWords == {"ge", "ge_s"}
\* [0-9零一二兩三四五六七八九十百千萬\.、]
TokenClass == Digits \cup ChineseNumerals \cup {".", "DUN"}

\* Array(qty).fill(amountStr).join(' ')
Repeat(amountStr, qty) ==
    LET n == Len(amountStr) + 1
    IN  [k \in 1..(qty * n - 1) |->
            IF k % n = 0 THEN " " ELSE amountStr[k % n]]

\* the match of the multiplier pattern that starts at position i, if any:
\* quantity+ \s* unit \s* amount+, every quantifier greedy
MatchAt(text, i) ==
    LET q == Run(text, i, QtyClass)
        u == i + q + Run(text, i + q, WhiteSpace)
        a == u + 1 + Run(text, u + 1, WhiteSpace)
        n == Run(text, a, AmountClass)
        found == q > 0 /\ u <= Len(text) /\ text[u] \in UnitWords /\ n > 0
    IN  IF found
        THEN [found |-> TRUE,
              qtyStr |-> SubSeq(text, i, i + q - 1),
              amountStr |-> SubSeq(text, a, a + n - 1),
              match |-> SubSeq(text, i, a + n - 1),
              next |-> a + n]
        ELSE [found |-> FALSE, qtyStr |-> <<>>, amountStr |-> <<>>,
              match |-> <<>>, next |-> i + 1]

\* the replacement callback
Replacement(m) ==
    LET qty == parseNumber(m.qtyStr) IN
    IF ~isNaN(qty) /\ NumIsPositive(qty) /\ NumAtMost(qty, 50)
    THEN Repeat(m.amountStr, qty.i)
    ELSE m.match

\* cleanText.replace(/.../g, callback), scanning from position i
RECURSIVE ReplaceFrom(_, _)
ReplaceFrom(text, i) ==
    IF i > Len(text) THEN <<>>
    ELSE LET m == MatchAt(text, i) IN
         IF m.found THEN Replacement(m) \o ReplaceFrom(text, m.next)
         ELSE <<text[i]>> \o ReplaceFrom(text, i + 1)

ExpandMultipliers(cleanText) == ReplaceFrom(cleanText, 1)

\* a token of split() begins at position i: at the start of the text and
\* after every separator (a longest run of characters outside TokenClass)
TokenStart(text, i) ==
    \/ i = 1
    \/ /\ text[i - 1] \notin TokenClass
       /\ (i > Len(text) \/ text[i] \in TokenClass)

\* the tokens of split() that begin at the positions lo..hi, in order; a
\* token is empty when a separator begins or ends the text
RECURSIVE SplitRange(_, _, _)
SplitRange(text, lo, hi) ==
    IF lo = hi
    THEN IF TokenStart(text, lo)
         THEN <<SubSeq(text, lo, lo + Run(text, lo, TokenClass) - 1)>>
         ELSE <<>>
    ELSE SplitRange(text, lo, (lo + hi) \div 2)
         \o SplitRange(text, (lo + hi) \div 2 + 1, hi)

\* cleanText.split(/[^...]+/)
split(cleanText) == SplitRange(cleanText, 1, Len(cleanText) + 1)

-----------------------------------------------------------------------------
(* The ledger and the page *)

\* the sum of the values of es[lo..hi]; the values are exact decimals, so
\* the sum is the one reduce() reaches from the left
RECURSIVE SumRange(_, _, _)
SumRange(es, lo, hi) ==
    IF lo > hi THEN Num(0)
    ELSE IF lo = hi THEN NumAdd(Num(0), es[lo].value)
    ELSE NumAdd(SumRange(es, lo, (lo + hi) \div 2),
                SumRange(es, (lo + hi) \div 2 + 1, hi))

\* calculateTotal()
calculateTotal(es) == SumRange(es, 1, Len(es))

Values(es) == [k \in 1..Len(es) |-> es[k].value]

\* the page after construction (render() of the empty ledger): the total
\* and its label, the summary modal, and the text of the transcript line.
\* The status line, the mic button's class and the hiding of the
\* transcript line are presentation only and are not modelled.
InitialDom ==
    [total |-> Num(0), count |-> 0,
     summaryModal |-> "hidden", modalCount |-> 0, modalTotal |-> Num(0),
     liveTranscript |-> "none"]

\* updateTotal(), and with it render(): the list itself shows entries
updateTotal(d, es) ==
    [d EXCEPT !.total = calculateTotal(es), !.count = Len(es)]

render(d, es) == updateTotal(d, es)

\* showTranscript(text): the text is one of "speech" (recognised words),
\* "deleted", "noData", "cleared", "setting"
showTranscript(d, text) == [d EXCEPT !.liveTranscript = text]

\* deleteLastEntry(); s = [entries, dom]
deleteFirstEntry(s) ==
    IF Len(s.entries) > 0
    THEN [entries |-> Tail(s.entries),
          dom |-> showTranscript(render(s.dom, Tail(s.entries)), "deleted")]
    ELSE [s EXCEPT !.dom = showTranscript(@, "noData")]
deleteLastEntryUnchecked(s) ==
    [entries |-> SubSeq(s.entries, 1, Len(s.entries) - 1),
     dom |-> showTranscript(
                 render(s.dom, SubSeq(s.entries, 1, Len(s.entries) - 1)),
                 "deleted")]
deleteLastEntry(s) ==
    IF Len(s.entries) > 0
    THEN LET removed == s.entries[Len(s.entries)]
             es == SubSeq(s.entries, 1, Len(s.entries) - 1)
         IN  [entries |-> es,
              dom |-> showTranscript(render(s.dom, es), "deleted")]
    ELSE [s EXCEPT !.dom = showTranscript(@, "noData")]

\* showSummary()
showSummary(s) ==
    [s EXCEPT !.dom = [updateTotal(@, s.entries) EXCEPT
                          !.modalCount = Len(s.entries),
                          !.modalTotal = calculateTotal(s.entries),
                          !.summaryModal = "shown"]]

\* val of each token in the forEach; an empty token is skipped before it is
\* parsed (NaN stands for no value)
ParseTokens(tokens) ==
    [k \in 1..Len(tokens) |->
        IF tokens[k] = <<>> THEN NaN ELSE parseNumber(tokens[k])]

\* the entries pushed for the values vals; ids are the values
\* Date.now() + Math.random() takes at the successive pushes
NewEntries(vals, ids) ==
    [k \in 1..Len(vals) |-> [id |-> ids[k], value |-> vals[k]]]

\* tokens.forEach(...): the entries pushed, in the order of the tokens
PushTokens(tokens, ids) ==
    NewEntries(SelectSeq(ParseTokens(tokens), LAMBDA val : ~isNaN(val)), ids)

\* the end of processSpeechInput: pushed are the entries of the forEach
RenderIfAdded(s, pushed) ==
    IF Len(pushed) > 0
    THEN [entries |-> s.entries \o pushed,
          dom |-> render(s.dom, s.entries \o pushed)]
    ELSE s

\* processSpeechInput from its first if on
ProcessClean(s, cleanText, ids) ==
    IF cleanText = <<>> THEN s
    ELSE IF IsDeleteCommand(cleanText) THEN deleteLastEntry(s)
    ELSE IF IsSummaryCommand(cleanText) THEN showSummary(s)
    ELSE RenderIfAdded(s, PushTokens(split(ExpandMultipliers(cleanText)),
                                     ids))

\* processSpeechInput(text); s = [entries, dom]
processSpeechInput(s, text, ids) ==
    ProcessClean(s, RemoveCommas(trim(text)), ids)

\* the number of entries processSpeechInput(text) can push at most
PushBound(text) == Len(split(ExpandMultipliers(RemoveCommas(trim(text)))))

-----------------------------------------------------------------------------
(* Inputs of the pipeline specifications *)

\* all sequences over alphabet of length lo..hi
SeqsOf(alphabet, lo, hi) == UNION {[1..n -> alphabet] : n \in lo..hi}

Count(str, c) == Cardinality({k \in 1..Len(str) : str[k] = c})

MaxTokLen == 3
MaxDigits == 3
MaxQtyLen == 2
MaxAmountLen == 2

\* characters the enumerated tokens are made of: some of each kind
TokenSample == {"0", "3", "5", ".", "DUN", "ling", "yi", "liang", "wu",
                "shi", "bai", "qian", "wan"}

\* tokens as split() produces them; one "wan" at most keeps every value
\* below 2^31
GeneralTokens ==
    {t \in SeqsOf(TokenSample, 1, MaxTokLen) : Count(t, "wan") <= 1}

DigitTokens == SeqsOf(Digits, 1, MaxDigits)

yibaiwu == <<"yi", "bai", "wu">>

ParseInputs == GeneralTokens \cup DigitTokens \cup {yibaiwu}

\* ---- Chinese numerals as they are written ----

DigitName(d, liang) ==
    IF d = 2 /\ liang THEN "liang"
    ELSE <<"ling", "yi", "er", "san", "si", "wu", "liu", "qi", "ba", "jiu">>[d + 1]

\* the numeral of a group m in 1..9999; lead: the group opens the numeral;
\* style.liang: 2 is written U+5169 before bai and qian and when the group is
\* 2 alone; style.shortTen: an opening 1x is written shi, not yi shi
GroupNumeral(m, lead, style) ==
    LET a == m \div 1000
        b == (m \div 100) % 10
        c == (m \div 10) % 10
        d == m % 10
        thousands == IF a > 0 THEN <<DigitName(a, style.liang), "qian">> ELSE <<>>
        hundreds == IF b > 0 THEN <<DigitName(b, style.liang), "bai">>
                    ELSE IF a > 0 /\ (c > 0 \/ d > 0) THEN <<"ling">> ELSE <<>>
        tens == IF c > 0
                THEN IF c = 1 /\ a = 0 /\ b = 0 /\ lead /\ style.shortTen
                     THEN <<"shi">> ELSE <<DigitName(c, FALSE), "shi">>
                ELSE IF b > 0 /\ d > 0 THEN <<"ling">> ELSE <<>>
        units == IF d > 0 THEN <<DigitName(d, style.liang /\ m = 2)>> ELSE <<>>
    IN  thousands \o hundreds \o tens \o units

\* the standard numeral of n, 0 <= n < 10^8, with every unit written
Numeral(n, style) ==
    LET hi == n \div 10000
        lo == n % 10000
    IN  IF n = 0 THEN <<"ling">>
        ELSE IF hi = 0 THEN GroupNumeral(lo, TRUE, style)
        ELSE GroupNumeral(hi, TRUE, style) \o <<"wan">>
             \o (IF lo = 0 THEN <<>>
                 ELSE IF lo < 1000 THEN <<"ling">> \o GroupNumeral(lo, FALSE, style)
                 ELSE GroupNumeral(lo, FALSE, style))

RECURSIVE FromDigits(_)
FromDigits(ds) ==
    IF ds = <<>> THEN 0
    ELSE FromDigits(SubSeq(ds, 1, Len(ds) - 1)) * 10 + ds[Len(ds)]

\* the values whose numerals are enumerated: every eight-digit pattern
\* over these digits, and the values the documentation names
NumeralDigits == {0, 1, 2, 5}
NumeralValues ==
    {FromDigits(ds) : ds \in [1..8 -> NumeralDigits]} \cup {15, 23000, 2}
NumeralStyles == [liang : BOOLEAN, shortTen : BOOLEAN]

\* ---- texts committed in SpecCommit ----

\* quantities: the strings the quantity class allows, and two that a
\* speaker may say but the class does not cover
QtySample == {"0", "5", "ling", "shi"}
QtyStrings ==
    SeqsOf(QtySample, 1, MaxQtyLen)
    \cup {<<"yi", "bai", "er", "shi">>, <<"5", ".">>}

\* amounts: the strings the amount class allows, and a decimal amount
AmountSample == {"0", "3", "bai"}
AmountStrings ==
    SeqsOf(AmountSample, 1, MaxAmountLen) \cup {<<"1", ".", "5">>}

DeleteSpellings ==
    {<<"shan", "chu">>, <<"shan", ",", "chu">>,
     <<"d", "e", "l", "e", "t", "e">>, <<"D", "e", "l", "e", "t", "e">>,
     <<"D", "E", "L", "E", "T", "E">>, <<"d", "E", "l", "e", "T", "e">>}
CommandPrefixes ==
    {<<>>, <<"3", " ">>, <<"yi", "bai", " ">>, <<"5", "ge", "3">>, <<" ">>}
CommandSuffixes ==
    {<<>>, <<" ", "3", "0", "0">>, <<",", "5">>, <<"jie", "suan">>,
     <<"shan", "chu">>}

PlainTokens ==
    {<<"0">>, <<"0", "0">>, <<"ling">>, <<"5">>, <<"shi", "wu">>, <<"DUN">>,
     <<"1", ".", "5">>, <<"bai">>, <<>>}
Separators == {<<" ">>, <<"yuan">>, <<",">>, <<"yuan", " ">>}

\* what a committed text is made from
CommitArgs ==
    {[kind |-> "scenario"]}
    \cup [kind : {"phrase"}, qty : QtyStrings, amount : AmountStrings,
          form : {"tight", "spaced"}]
    \cup [kind : {"command"}, word : DeleteSpellings \cup SummaryWords,
          pre : CommandPrefixes, post : CommandSuffixes]
    \cup [kind : {"tokens"}, first : PlainTokens, sep : Separators,
          second : PlainTokens]

TextOf(a) ==
    CASE a.kind = "scenario" ->
           yibaiwu \o <<" ", "2", "0", "0", " ", "3", "0", "0">>
      [] a.kind = "phrase" ->
           IF a.form = "tight" THEN a.qty \o <<"ge">> \o a.amount
           ELSE a.qty \o <<" ", "ge_s", " ">> \o a.amount
      [] a.kind = "command" -> a.pre \o a.word \o a.post
      [] a.kind = "tokens" -> a.first \o a.sep \o a.second

\* the ledgers a text is committed on
PriorLedgers ==
    {<<>>,
     <<[id |-> 1, value |-> Num(7)]>>,
     <<[id |-> 1, value |-> Num(7)], [id |-> 2, value |-> Num(8)]>>}

\* Date.now() + Math.random() at the n pushes of one call: all different,
\* or the second equal to the first
IdDraws(es, n) ==
    {[k \in 1..n |-> Len(es) + k],
     [k \in 1..n |-> IF k = 2 THEN Len(es) + 1 ELSE Len(es) + k]}

-----------------------------------------------------------------------------
(* The listening session *)

\* result events the backend sends in a run
MaxResults == 2
\* settle-delay timeouts of the mic button pending at a time
MaxStartTimers == 1

\* A timer field is modelled by the timeouts armed through it that are
\* still pending, oldest first, each named by what its callback closes
\* over.  The field itself holds the handle of the timeout armed last.
NoTimer == <<>>

\* clearTimeout(handle): cancels the timeout the handle names, if it is
\* still pending
clearTimeoutNothing(timer) == timer
clearTimeout(timer) ==
    IF timer = <<>> THEN <<>> ELSE SubSeq(timer, 1, Len(timer) - 1)

\* handle = setTimeout(callback, delay)
setTimeout(timer, callback) == Append(timer, callback)

\* the pending timeouts without the k-th, which fires
Fired(timer, k) ==
    [j \in 1..(Len(timer) - 1) |-> IF j < k THEN timer[j] ELSE timer[j + 1]]

\* what the backend may recognise in a session run
SessionTexts == {<<"5">>, <<"shan", "chu">>}
\* Date.now() + Math.random() at a push of a session run: result events
\* and timer callbacks run at different times, and the value is taken to
\* differ from the id of every entry present (named by the least number
\* free).  Pushes of one call are the matter of SpecCommit.
FreshId(es) ==
    CHOOSE n \in 1..(Len(es) + 1) :
        /\ \A k \in 1..Len(es) : es[k].id /= n
        /\ \A m \in 1..(n - 1) : \E k \in 1..Len(es) : es[k].id = m
\* the options of the auto-stop select: the one the page starts with
\* (autoStopSelect.value = this.autoStopMinutes) and one other
AutoStopOptions == {3, 5}

\* recognition.start(): accepted only when the object is inactive,
\* otherwise it throws InvalidStateError
StartAccepted(r) == r = "inactive"
\* recognition.stop(): stop capturing, return what was captured, then end
AfterStop(r) == IF r \in {"starting", "active"} THEN "stopping" ELSE r
\* recognition.abort(): stop and return nothing, then end
AfterAbort(r) ==
    IF r \in {"starting", "active", "stopping"} THEN "aborting" ELSE r

\* The callback of an inactivity timeout is named by the delay it was
\* armed for, by the handler that armed it, and by a mark that tells it
\* from the timeout it replaces (a new timeout starts its delay anew).
InactivityCallback(timer, minutes, caller) ==
    [minutes |-> minutes, caller |-> caller,
     instance |-> IF timer = <<>> THEN 0
                  ELSE 1 - timer[Len(timer)].instance]

\* resetInactivityTimer(): the pending inactivity timeouts afterwards
resetInactivityTimerKeep(timer, listening, minutes, caller) ==
    IF timer /= <<>> THEN timer
    ELSE IF listening
         THEN setTimeout(timer, InactivityCallback(timer, minutes, caller))
         ELSE timer
resetInactivityTimer(timer, listening, minutes, caller) ==
    IF listening
    THEN setTimeout(clearTimeout(timer),
                    InactivityCallback(timer, minutes, caller))
    ELSE clearTimeout(timer)

\* onend: the pending restart timeouts afterwards
ArmRestartNever(timer, listening) == timer
ArmRestart(timer, listening) ==
    IF listening THEN setTimeout(clearTimeout(timer), "restart") ELSE timer

\* onresult: the pending forced-commit timeouts afterwards
ArmForceFinalizeNoCancel(timer, interim) ==
    IF interim /= <<>> THEN setTimeout(timer, interim) ELSE clearTimeout(timer)
ArmForceFinalize(timer, interim) ==
    IF interim /= <<>> THEN setTimeout(clearTimeout(timer), interim)
    ELSE clearTimeout(timer)

\* the history after a call of recognition.start()
StartCalled(l) ==
    [l EXCEPT !.startAfterStop = @ \/ l.userStop,
              !.startAfterDenial = @ \/ l.denied]

NoLog ==
    [userStop |-> FALSE, denied |-> FALSE, startAfterStop |-> FALSE,
     startAfterDenial |-> FALSE, restart |-> "none", pendingInterim |-> <<>>]

Ledger == [entries |-> entries, dom |-> dom]

\* the ledger and the page become those of s
SetLedger(s) == entries' = s.entries /\ dom' = s.dom

PipelineIdle == UNCHANGED <<input, arg, before, output, pc>>

\* micBtn click, stop branch
MicStop ==
    /\ isListening
    /\ isListening' = FALSE
    /\ recognition' = AfterStop(recognition)
    /\ inactivityTimer' = clearTimeout(inactivityTimer)
    /\ log' = [log EXCEPT !.userStop = TRUE]
    /\ UNCHANGED startTimers

\* micBtn click, start branch
MicStart ==
    /\ ~isListening
    /\ startTimers < MaxStartTimers
    /\ isListening' = TRUE
    /\ recognition' = AfterAbort(recognition)
    /\ startTimers' = startTimers + 1
    /\ log' = [log EXCEPT !.userStop = FALSE, !.denied = FALSE,
                          !.startAfterStop = FALSE,
                          !.startAfterDenial = FALSE]
    /\ UNCHANGED inactivityTimer

\* micBtn click
MicClick ==
    /\ MicStop \/ MicStart
    /\ utterance' = IF recognition' = "aborting"
                    THEN [utterance EXCEPT !.cur = FALSE] ELSE utterance
    /\ UNCHANGED <<entries, dom, forceFinalizeTimer, restartTimer,
                   autoStopMinutes, committed, lastAlert>>
    /\ PipelineIdle

\* the setTimeout(..., 100) callback of the mic button
StartTimerFire ==
    /\ startTimers > 0
    /\ startTimers' = startTimers - 1
    /\ log' = StartCalled(log)
    /\ IF StartAccepted(recognition)
       THEN /\ recognition' = "starting"
            /\ UNCHANGED <<isListening, lastAlert>>
       ELSE /\ isListening' = FALSE
            /\ lastAlert' = "startFailed"
            /\ UNCHANGED recognition
    /\ UNCHANGED <<entries, dom, forceFinalizeTimer, restartTimer, inactivityTimer,
                   autoStopMinutes, utterance, committed>>
    /\ PipelineIdle

\* recognition.onstart
OnStart ==
    /\ recognition = "starting"
    /\ recognition' = "active"
    /\ inactivityTimer' =
           IF isListening
           THEN resetInactivityTimer(inactivityTimer, isListening,
                                     autoStopMinutes, "onstart")
           ELSE inactivityTimer
    /\ UNCHANGED <<entries, dom, isListening, forceFinalizeTimer, restartTimer,
                   startTimers, autoStopMinutes, utterance, committed,
                   lastAlert, log>>
    /\ PipelineIdle

\* recognition.onend
OnEnd ==
    /\ recognition \in {"active", "stopping", "aborting", "ending"}
    /\ recognition' = "inactive"
    /\ utterance' = [utterance EXCEPT !.cur = FALSE]
    /\ restartTimer' = ArmRestart(restartTimer, isListening)
    /\ log' = [log EXCEPT !.restart = IF isListening THEN "armed" ELSE @]
    /\ UNCHANGED <<entries, dom, isListening, forceFinalizeTimer, inactivityTimer,
                   startTimers, autoStopMinutes, committed, lastAlert>>
    /\ PipelineIdle

\* the setTimeout(..., 50) callback of onend
RestartTimerFire ==
    /\ restartTimer /= <<>>
    /\ restartTimer' = Tail(restartTimer)
    /\ recognition' = IF isListening /\ StartAccepted(recognition)
                      THEN "starting" ELSE recognition
    /\ log' = IF isListening
              THEN [StartCalled(log) EXCEPT !.restart = "started"]
              ELSE [log EXCEPT !.restart = "none"]
    /\ UNCHANGED <<entries, dom, isListening, forceFinalizeTimer,
                   inactivityTimer, startTimers, autoStopMinutes, utterance,
                   committed, lastAlert>>
    /\ PipelineIdle

\* the history after one more call of processSpeechInput with the text of
\* the utterance that c counts
Committed(c, via) ==
    LET d == IF via = "final" THEN [c EXCEPT !.final = @ + 1]
             ELSE [c EXCEPT !.forced = @ + 1]
    IN  [d EXCEPT !.most = IF d.final + d.forced > @ THEN d.final + d.forced
                           ELSE @]

\* the history when the backend begins a new utterance
NextUtterance(c) == [c EXCEPT !.final = 0, !.forced = 0]

\* the history when a result event speaks of an utterance: the one in
\* progress, or else a new one
Spoken == IF utterance.cur THEN committed ELSE NextUtterance(committed)

\* if (interimTranscript) this.showTranscript(interimTranscript)
ShowInterim(s, interim) ==
    IF interim /= <<>>
    THEN [s EXCEPT !.dom = showTranscript(@, "speech")] ELSE s

\* recognition.onresult: the event carries the final text of one utterance
\* (final = <<>>: none) and the interim text of another (interim = <<>>:
\* none)
onresult(final, interim) ==
    /\ inactivityTimer' = resetInactivityTimer(inactivityTimer, isListening,
                                               autoStopMinutes, "onresult")
    /\ SetLedger(ShowInterim(
           IF final /= <<>>
           THEN processSpeechInput(
                    [entries |-> entries,
                     dom |-> showTranscript(dom, "speech")],
                    final, <<FreshId(entries)>>)
           ELSE Ledger,
           interim))
    /\ forceFinalizeTimer' = ArmForceFinalize(forceFinalizeTimer, interim)
    /\ log' = [log EXCEPT !.pendingInterim = interim]

\* a result event with interim text only
OnInterimResult ==
    /\ recognition = "active"
    /\ utterance.results < MaxResults
    /\ \E text \in SessionTexts : onresult(<<>>, text)
    /\ utterance' = [cur |-> TRUE, results |-> utterance.results + 1]
    /\ committed' = Spoken
    /\ UNCHANGED <<isListening, restartTimer, startTimers, autoStopMinutes,
                   recognition, lastAlert>>
    /\ PipelineIdle

\* a result event with final text only; after stop() the backend still
\* returns the final result of the utterance it was recognising
OnFinalResult ==
    /\ \/ recognition = "active"
       \/ recognition = "stopping" /\ utterance.cur
    /\ utterance.results < MaxResults
    /\ \E text \in SessionTexts : onresult(text, <<>>)
    /\ utterance' = [cur |-> FALSE, results |-> utterance.results + 1]
    /\ committed' = Committed(Spoken, "final")
    /\ UNCHANGED <<isListening, restartTimer, startTimers, autoStopMinutes,
                   recognition, lastAlert>>
    /\ PipelineIdle

\* a result event with the final text of one utterance and the interim
\* text of the next
OnFinalAndInterimResult ==
    /\ recognition = "active"
    /\ utterance.results < MaxResults
    /\ \E final \in SessionTexts, interim \in SessionTexts :
           onresult(final, interim)
    /\ utterance' = [cur |-> TRUE, results |-> utterance.results + 1]
    /\ committed' = NextUtterance(Committed(Spoken, "final"))
    /\ UNCHANGED <<isListening, restartTimer, startTimers, autoStopMinutes,
                   recognition, lastAlert>>
    /\ PipelineIdle

\* the interimTranscript of the forced-commit timeout that fires next:
\* all are armed for 600 ms, so the oldest
ForcedText == Head(forceFinalizeTimer)

\* the setTimeout(..., 600) callback of onresult
ForceFinalizeFire ==
    /\ forceFinalizeTimer /= <<>>
    /\ forceFinalizeTimer' = Tail(forceFinalizeTimer)
    /\ SetLedger(processSpeechInput(Ledger, ForcedText,
                                     <<FreshId(entries)>>))
    /\ committed' = Committed(committed, "forced")
    /\ recognition' = IF isListening THEN AfterAbort(recognition) ELSE recognition
    /\ utterance' = IF recognition' = "aborting"
                    THEN [utterance EXCEPT !.cur = FALSE] ELSE utterance
    /\ log' = [log EXCEPT !.pendingInterim = <<>>]
    /\ UNCHANGED <<isListening, restartTimer, inactivityTimer, startTimers,
                   autoStopMinutes, lastAlert>>
    /\ PipelineIdle

\* the callback of the inactivity timer.  It is armed for whole minutes,
\* and no earlier than a pending forced-commit timer (600 ms) was armed, so
\* it does not fire while that one is pending.
InactivityFire ==
    /\ forceFinalizeTimer = <<>>
    /\ \E k \in 1..Len(inactivityTimer) :
           inactivityTimer' = Fired(inactivityTimer, k)
    /\ isListening' = FALSE
    /\ recognition' = AfterStop(recognition)
    /\ UNCHANGED <<entries, dom, forceFinalizeTimer, restartTimer, startTimers,
                   autoStopMinutes, utterance, committed, lastAlert, log>>
    /\ PipelineIdle

BenignErrors == {"no-speech", "aborted", "network"}
PermissionErrors == {"not-allowed", "service-not-allowed"}
OtherErrors == {"audio-capture"}

\* recognition.onerror; the backend ends the session after an error
OnError ==
    /\ \E error \in BenignErrors \cup PermissionErrors \cup OtherErrors :
        /\ IF error = "aborted" THEN recognition = "aborting"
           ELSE recognition \in {"starting", "active", "stopping"}
        /\ IF error \in PermissionErrors
           THEN /\ isListening' = FALSE
                /\ lastAlert' = "micDenied"
                /\ log' = [log EXCEPT !.denied = TRUE]
           ELSE UNCHANGED <<isListening, lastAlert, log>>
    /\ recognition' = "ending"
    /\ utterance' = [utterance EXCEPT !.cur = FALSE]
    /\ UNCHANGED <<entries, dom, forceFinalizeTimer, restartTimer,
                   inactivityTimer, startTimers, autoStopMinutes, committed>>
    /\ PipelineIdle

\* saveSettingsBtn click
SaveSettings ==
    /\ \E val \in AutoStopOptions :
        /\ autoStopMinutes' = val
        /\ inactivityTimer' =
               IF isListening
               THEN resetInactivityTimer(inactivityTimer, isListening, val,
                                         "settings")
               ELSE inactivityTimer
    /\ dom' = showTranscript(dom, "setting")
    /\ UNCHANGED <<entries, isListening, forceFinalizeTimer, restartTimer,
                   startTimers, recognition, utterance, committed, lastAlert,
                   log>>
    /\ PipelineIdle

SessionIdle ==
    UNCHANGED <<isListening, forceFinalizeTimer, restartTimer, inactivityTimer,
                startTimers, autoStopMinutes, recognition, utterance,
                committed, lastAlert, log>>

\* btnDelete click
DeleteButton ==
    /\ SetLedger(deleteLastEntry(Ledger))
    /\ SessionIdle /\ PipelineIdle

\* btnClear click, confirmed
ClearButton ==
    /\ entries' = <<>>
    /\ dom' = showTranscript(render(dom, <<>>), "cleared")
    /\ SessionIdle /\ PipelineIdle

\* this.entries.filter(e => e.id !== entry.id)
deleteEntry(es, id) == SelectSeq(es, LAMBDA e : e.id /= id)

\* click on the delete button of the entry shown at position k
DeleteEntryButton ==
    /\ \E k \in 1..Len(entries) :
         /\ entries' = deleteEntry(entries, entries[k].id)
         /\ dom' = render(dom, deleteEntry(entries, entries[k].id))
    /\ SessionIdle /\ PipelineIdle

-----------------------------------------------------------------------------
(* Specifications *)

SessionInit ==
    /\ isListening = FALSE
    /\ forceFinalizeTimer = NoTimer
    /\ restartTimer = NoTimer
    /\ inactivityTimer = NoTimer
    /\ startTimers = 0
    /\ autoStopMinutes = 3
    /\ recognition = "inactive"
    /\ utterance = [cur |-> FALSE, results |-> 0]
    /\ committed = [final |-> 0, forced |-> 0, most |-> 0]
    /\ lastAlert = "none"
    /\ log = NoLog

PipelineInit ==
    /\ input = <<>>
    /\ arg = 0
    /\ before = [entries |-> <<>>, dom |-> InitialDom]
    /\ output = NaN
    /\ pc = "session"

\* the state after new VoiceCalculator()
Init ==
    /\ entries = <<>>
    /\ dom = InitialDom
    /\ SessionInit
    /\ PipelineInit

Next ==
    \/ MicClick
    \/ StartTimerFire
    \/ OnStart
    \/ OnEnd
    \/ RestartTimerFire
    \/ OnInterimResult
    \/ OnFinalResult
    \/ OnFinalAndInterimResult
    \/ ForceFinalizeFire
    \/ InactivityFire
    \/ OnError
    \/ SaveSettings
    \/ DeleteButton
    \/ ClearButton
    \/ DeleteEntryButton

Spec == Init /\ [][Next]_vars

\* the event loop runs the callback of every timeout that stays pending;
\* a restart timeout stays pending until it fires (onend cancels it only
\* to arm it anew)
SpecLive == Spec /\ WF_vars(RestartTimerFire)

\* the inactivity timeout marked n fires
InactivityFireOf(n) ==
    /\ inactivityTimer /= <<>>
    /\ Head(inactivityTimer).instance = n
    /\ InactivityFire

\* the event loop runs the callback of every timeout that stays pending
\* for its delay; a timeout that is cancelled and armed anew is another
\* timeout, whose delay starts anew.  For the forced-commit timeout, of
\* which at most one is pending, weak fairness of ForceFinalizeFire is
\* written as what it amounts to: the timeout does not stay pending for
\* ever.
SpecTimers ==
    /\ Spec
    /\ WF_vars(StartTimerFire)
    /\ WF_vars(RestartTimerFire)
    /\ []<>(forceFinalizeTimer = <<>>)
    /\ \A n \in {0, 1} : WF_vars(InactivityFireOf(n))

\* ---- parseNumber on one token ----

InitParse ==
    /\ entries = <<>>
    /\ dom = InitialDom
    /\ SessionInit
    /\ input \in ParseInputs
    /\ arg = 0
    /\ before = [entries |-> <<>>, dom |-> InitialDom]
    /\ output = NaN
    /\ pc = "ready"

\* val = this.parseNumber(token)
Parse ==
    /\ pc = "ready"
    /\ output' = parseNumber(input)
    /\ pc' = "parsed"
    /\ UNCHANGED <<entries, dom, input, arg, before>>
    /\ SessionIdle

SpecParse == InitParse /\ [][Parse]_vars

\* ---- parseNumber on one written numeral ----

InitNumeral ==
    /\ entries = <<>>
    /\ dom = InitialDom
    /\ SessionInit
    /\ arg \in [n : NumeralValues, style : NumeralStyles]
    /\ input = Numeral(arg.n, arg.style)
    /\ before = [entries |-> <<>>, dom |-> InitialDom]
    /\ output = NaN
    /\ pc = "ready"

SpecNumeral == InitNumeral /\ [][Parse]_vars

\* ---- processSpeechInput on one text ----

InitCommit ==
    /\ entries \in PriorLedgers
    /\ dom = render(InitialDom, entries)
    /\ SessionInit
    /\ arg \in CommitArgs
    /\ input = TextOf(arg)
    /\ before = [entries |-> entries, dom |-> dom]
    /\ output = NaN
    /\ pc = "ready"

\* this.processSpeechInput(text)
Commit ==
    /\ pc = "ready"
    /\ \E ids \in IdDraws(entries, PushBound(input)) :
         SetLedger(processSpeechInput(Ledger, input, ids))
    /\ pc' = "committed"
    /\ UNCHANGED <<input, arg, before, output>>
    /\ SessionIdle

\* btnDelete click after the call
DeleteLast ==
    /\ pc = "committed"
    /\ SetLedger(deleteLastEntry(Ledger))
    /\ pc' = "deleted"
    /\ UNCHANGED <<input, arg, before, output>>
    /\ SessionIdle

NextCommit == Commit \/ DeleteLast

SpecCommit == InitCommit /\ [][NextCommit]_vars

-----------------------------------------------------------------------------
(* Properties *)

\* C1: whatever the order of result events, timer callbacks, end events
\* and mic clicks, the text of one utterance is passed to
\* processSpeechInput at most once (never by the forced-commit timer and
\* by a final result both).
CommittedAtMostOnce == committed.most <= 1

\* C2: parseNumber reads yi bai wu (U+4E00 U+767E U+4E94) as 150.
YiBaiWuIs150 == (pc = "parsed" /\ input = yibaiwu) => output = Num(150)

\* C3: committing the one final segment "yi bai wu 200 300" on an empty
\* ledger leaves the three entries 150, 200, 300 in that order, sum 650.
ScenarioLedger ==
    (pc = "committed" /\ arg.kind = "scenario" /\ before.entries = <<>>)
    => /\ Values(entries) = <<Num(150), Num(200), Num(300)>>
       /\ calculateTotal(entries) = Num(650)

\* C4 as stated: parseNumber returns the standard value of every
\* well-formed numeral with explicit units below 10^8.
NumeralValue == pc = "parsed" => output = Num(arg.n)

\* C4 as amended: ... of every such numeral whose value is not zero.
NonzeroNumeralValue == (pc = "parsed" /\ arg.n /= 0) => output = Num(arg.n)

NumeralWitness ==
    /\ pc = "parsed"
    /\ input = <<"liang", "wan", "san", "qian">>
    /\ output = Num(23000)

\* the value of a string of digits, read from the left
RECURSIVE PlainDecimal(_, _)
PlainDecimal(str, acc) ==
    IF str = <<>> THEN acc
    ELSE PlainDecimal(Tail(str), acc * 10 + DigitValue(Head(str)))

\* C5: for a token of Arabic digits only, parseNumber returns the plain
\* decimal value of the token, by its first return (no scan).
DigitTokenValue ==
    (pc = "parsed" /\ input \in DigitTokens)
    => /\ output = Num(PlainDecimal(input, 0))
       /\ ReturnsFloatCheck(input)

DigitTokenWitness ==
    pc = "parsed" /\ input = <<"0", "0", "7">> /\ output = Num(7)

ZeroTokens == {<<"0">>, <<"0", "0">>, <<"ling">>, <<"DUN">>, <<"bai">>}

\* C6: parseNumber fails on every token whose value is 0, the token is
\* skipped and the tokens after it are still read, and so no ledger entry
\* has the value 0.
NoZeroEntry ==
    pc = "committed"
    => /\ \A k \in 1..Len(entries) : ~NumIsZero(entries[k].value)
       /\ arg.kind = "tokens"
          => /\ arg.first \in ZeroTokens => isNaN(parseNumber(arg.first))
             /\ (arg.first \in ZeroTokens /\ arg.second = <<"5">>
                 /\ arg.sep /= <<",">>)
                => Values(entries) = Append(Values(before.entries), Num(5))

ButLast(es) == IF es = <<>> THEN <<>> ELSE SubSeq(es, 1, Len(es) - 1)

\* the text was built with a delete keyword in it
SaysDelete(a) ==
    a.kind = "command"
    /\ (a.word \in DeleteSpellings \/ a.post = <<"shan", "chu">>)

\* C7: committing a text whose cleaned form contains the delete keyword
\* (the alias in any letter case) appends nothing, whatever numerals it
\* also contains: the ledger is the prior one without its last entry.
DeleteNeverAppends ==
    (pc = "committed" /\ SaysDelete(arg)) => entries = ButLast(before.entries)

DeleteWitness ==
    /\ pc = "committed"
    /\ arg.kind = "command"
    /\ arg.word = <<"D", "e", "l", "e", "t", "e">>
    /\ arg.post = <<" ", "3", "0", "0">>
    /\ Len(before.entries) = 2
    /\ Len(entries) = 1

\* C8: committing a text with a summary keyword and no delete keyword
\* shows the summary (count and total of the ledger) and leaves the ledger
\* as it was, whatever numerals the text also contains.
SummaryLeavesLedger ==
    (pc = "committed" /\ arg.kind = "command" /\ arg.word \in SummaryWords
     /\ ~SaysDelete(arg))
    => /\ entries = before.entries
       /\ calculateTotal(entries) = before.dom.total
       /\ dom.summaryModal = "shown"
       /\ dom.modalCount = Len(before.entries)
       /\ dom.modalTotal = before.dom.total

SummaryWitness ==
    /\ pc = "committed"
    /\ arg.kind = "command"
    /\ arg.word = <<"mai", "dan">>
    /\ arg.pre = <<"5", "ge", "3">>
    /\ arg.post = <<" ", "3", "0", "0">>
    /\ Len(entries) = 2
    /\ dom.summaryModal = "shown"
    /\ before.dom.summaryModal = "hidden"

Copies(v, n) == [k \in 1..n |-> v]
IsCount(q) == ~isNaN(q) /\ q.f = 0 /\ q.i >= 1 /\ q.i <= 50
OwnMerits(token) ==
    IF isNaN(parseNumber(token)) THEN <<>> ELSE <<parseNumber(token)>>

\* C9: committing a phrase "Q ge A" whose Q parses to an integer q in
\* 1..50 and whose A parses to a value a other than 0 appends exactly q
\* entries, each of value a.
MultiplierExpands ==
    (pc = "committed" /\ arg.kind = "phrase"
     /\ IsCount(parseNumber(arg.qty))
     /\ ~isNaN(parseNumber(arg.amount))
     /\ ~NumIsZero(parseNumber(arg.amount)))
    => Values(entries)
         = Values(before.entries)
           \o Copies(parseNumber(arg.amount), parseNumber(arg.qty).i)

\* C10: a phrase "Q ge A" whose Q parses to 0, to no value or to more
\* than 50 is left as it was, and Q and A are then read as two tokens, each
\* on its own.
MalformedLeftAlone ==
    (pc = "committed" /\ arg.kind = "phrase" /\ ~IsCount(parseNumber(arg.qty)))
    => /\ ExpandMultipliers(input) = input
       /\ Values(entries)
            = Values(before.entries) \o OwnMerits(arg.qty) \o OwnMerits(arg.amount)

\* C11: after the user asks to stop (a mic click while listening) and until
\* the user asks to start again, the controller never calls
\* recognition.start(): not from onend, not from a restart timeout, not
\* from any other pending timeout.
NoStartAfterUserStop == log.userStop => ~log.startAfterStop

\* C12: a permission error leaves the session not listening, and from then
\* until the user asks to start again the controller never calls
\* recognition.start().
NoStartAfterDenial == log.denied => (~isListening /\ ~log.startAfterDenial)

\* C13: whenever the backend reports end while isListening is true (also
\* the end that follows the abort() of a forced commit), the session stays
\* listening and a restart timeout is armed; and unless the session is
\* stopped in the meantime, recognition.start() is eventually called
\* again by it.
RestartAfterEnd ==
    /\ [][(recognition /= "inactive" /\ recognition' = "inactive"
           /\ isListening)
          => (isListening' /\ Len(restartTimer') = 1
              /\ log'.restart = "armed")]_vars
    /\ (log.restart = "armed") ~> (log.restart = "started" \/ ~isListening)

RestartWitness ==
    /\ log.restart = "started"
    /\ isListening
    /\ recognition = "starting"
    /\ committed.forced = 1
    /\ restartTimer = <<>>

\* C14: when a call has appended one entry, deleteLastEntry() restores the
\* ledger as it was before the append: the same entries in the same
\* order, the same count and the same sum.
AppendThenDeleteRestores ==
    [][(pc = "committed" /\ pc' = "deleted"
        /\ Len(entries) = Len(before.entries) + 1)
       => /\ entries' = before.entries
          /\ Len(entries') = before.dom.count
          /\ calculateTotal(entries') = before.dom.total
          /\ dom'.count = before.dom.count
          /\ dom'.total = before.dom.total]_vars

AppendThenDeleteWitness ==
    /\ pc = "deleted"
    /\ arg.kind = "tokens"
    /\ arg.first = <<"1", ".", "5">>
    /\ arg.sep = <<" ">>
    /\ arg.second = <<>>
    /\ Len(before.entries) = 2
    /\ entries = before.entries
    /\ dom.liveTranscript = "deleted"

\* C15: the ids of the entries of the ledger are all different, also those
\* pushed by one call, so that deleting by the id of an entry removes that
\* entry and no other, and removes nothing when no entry has the id.
IdsDistinct ==
    pc = "committed"
    => /\ \A j, k \in 1..Len(entries) : entries[j].id = entries[k].id => j = k
       /\ \A k \in 1..Len(entries) :
            deleteEntry(entries, entries[k].id)
              = [j \in 1..(Len(entries) - 1) |->
                   IF j < k THEN entries[j] ELSE entries[j + 1]]
       /\ deleteEntry(entries, 0) = entries

\* the ledger empty and the page saying there is nothing to delete
NothingToDelete(d) ==
    [entries |-> <<>>, dom |-> [d EXCEPT !.liveTranscript = "noData"]]

OneInstancePerTimer ==
    /\ [](/\ Len(forceFinalizeTimer) <= 1
          /\ Len(restartTimer) <= 1
          /\ Len(inactivityTimer) <= 1)
    /\ [][OnFinalResult => forceFinalizeTimer' = <<>>]_vars

OneInstanceWitness ==
    /\ Len(forceFinalizeTimer) = 1
    /\ Len(restartTimer) = 1
    /\ Len(inactivityTimer) = 1
    /\ inactivityTimer[1].caller = "onresult"
    /\ utterance.results = 2
    /\ committed.most = 0

\* C18: whenever the session is idle (isListening false, after a user
\* stop, the inactivity timeout, a permission error or a failed start),
\* no restart timeout and no inactivity timeout is pending.
IdleHasNoTimers ==
    ~isListening => (restartTimer = <<>> /\ inactivityTimer = <<>>)

\* the controller means to listen and the backend has confirmed the start
Listening == isListening /\ recognition = "active"

\* one inactivity timeout is pending, armed by the handler for the delay
ArmedBy(timer, minutes, caller) ==
    /\ Len(timer) = 1
    /\ timer[1].minutes = minutes
    /\ timer[1].caller = caller

\* C19: whenever the session is Listening, an inactivity timeout is
\* pending, armed for autoStopMinutes: onstart arms it, and every result
\* event cancels it and arms it anew for the full autoStopMinutes.
ListeningHasInactivityTimer ==
    /\ [](Listening
          => /\ Len(inactivityTimer) = 1
             /\ inactivityTimer[1].minutes = autoStopMinutes)
    /\ [][(recognition = "starting" /\ recognition' = "active"
           /\ isListening)
          => ArmedBy(inactivityTimer', autoStopMinutes, "onstart")]_vars
    /\ [][(utterance'.results = utterance.results + 1 /\ Listening)
          => ArmedBy(inactivityTimer', autoStopMinutes, "onresult")]_vars

InactivityRearmedWitness ==
    /\ Listening
    /\ autoStopMinutes = 5
    /\ ArmedBy(inactivityTimer, 5, "onresult")
    /\ utterance.results = 2

\* C20: each result event with interim text cancels the forced-commit
\* timeout armed by the previous one and arms its own; when the timeout
\* fires it commits the interim text of the most recent result event and
\* no other, so a superseded text is never committed by the timer.
InterimSupersedes ==
    /\ [][(utterance'.results = utterance.results + 1 /\ utterance'.cur)
          => /\ log'.pendingInterim /= <<>>
             /\ forceFinalizeTimer' = <<log'.pendingInterim>>]_vars
    /\ [][(committed'.forced = committed.forced + 1)
          => /\ ForcedText = log.pendingInterim
             /\ SetLedger(processSpeechInput(Ledger, log.pendingInterim,
                                              <<FreshId(entries)>>))]_vars

SupersededWitness ==
    /\ utterance.results = 2
    /\ committed.forced = 1
    /\ committed.final = 0
    /\ committed.most = 1
    /\ forceFinalizeTimer = <<>>
    /\ log.pendingInterim = <<>>
    /\ Len(entries) = 1
    /\ dom.count = 1

\* the pending inactivity timeout was armed by a result event or by the
\* settings dialog: by speech or by the user, not by a restart
ArmedByActivity ==
    /\ inactivityTimer /= <<>>
    /\ Head(inactivityTimer).caller \in {"onresult", "settings"}

\* C21: a session that is Listening eventually becomes idle (isListening
\* false) unless the user stops it or a result event or a saving of the
\* settings arms the inactivity timeout anew; so a run without user and
\* speech activity from some point on ends idle, also when the backend
\* keeps ending and being restarted.
AutoStopEnforced == Listening ~> (~isListening \/ ArmedByActivity)

\* a step in which the controller calls recognition.start()
StartInvoked == StartTimerFire \/ (RestartTimerFire /\ isListening)

\* C22: the controller never calls recognition.start() between an
\* accepted start() and the end event that follows it: the start of the
\* settle delay and the start of the restart timeout never hit the same
\* backend session, so no start request ends idle with the alert that the
\* start failed while the backend is running.
NoStartWhileStarted == [][StartInvoked => StartAccepted(recognition)]_vars

\* a step of one of the buttons that change the ledger
LedgerButton == DeleteButton \/ ClearButton \/ DeleteEntryButton

\* C23: while the session is idle and the backend has reported end, until
\* the user asks to start again, the ledger is changed only by the delete,
\* delete-by-id and clear buttons: no speech text is committed, not by a
\* forced-commit timeout left pending when the session stopped either.
IdleLedgerOnlyByButtons ==
    [][(~isListening /\ recognition = "inactive" /\ entries' /= entries)
       => LedgerButton]_vars

====
